---- MODULE Spec2Model ----
(***************************************************************************)
(* DocumentService of pdf-packet-24: the upload / update / delete / get /  *)
(* export handlers over the Supabase blob store ("documents" bucket) and   *)
(* metadata store ("documents" table).  Every `await` of a handler is one  *)
(* step of the task that runs it; tasks interleave at those steps.         *)
(* Strings that the code builds or takes apart (storage keys, public urls, *)
(* filenames) are sequences of one-character strings.                      *)
(***************************************************************************)
EXTENDS Integers, Sequences, FiniteSets, TLC

VARIABLES blobs, meta, nextId, clock, started, deleted, origin, removeFailed, task

vars == <<blobs, meta, nextId, clock, started, deleted, origin, removeFailed, task>>

\* ------------------------------------------------------------------ bounds
MaxOps == 2
MaxClock == 2

Times == 1..MaxClock
Procs == {"t1", "t2"}
TaskNo == [t1 |-> 1, t2 |-> 2]

\* ------------------------------------------------------- string helpers
Dash == <<"-">>
Slash == <<"/">>

\* s.startsWith(pre)
StartsWith(s, pre) ==
    /\ Len(s) >= Len(pre)
    /\ SubSeq(s, 1, Len(pre)) = pre

\* s.includes(sub)
Includes(s, sub) ==
    \E i \in 0..(Len(s) - Len(sub)) : SubSeq(s, i + 1, i + Len(sub)) = sub

UpperCase == <<"A", "B", "C", "D", "E", "F", "G", "H", "I", "J", "K", "L", "M",
              "N", "O", "P", "Q", "R", "S", "T", "U", "V", "W", "X", "Y", "Z">>
LowerCase == <<"a", "b", "c", "d", "e", "f", "g", "h", "i", "j", "k", "l", "m",
              "n", "o", "p", "q", "r", "s", "t", "u", "v", "w", "x", "y", "z">>

\* one character of String.prototype.toLowerCase
LowerChar(c) ==
    IF \E i \in 1..Len(UpperCase) : UpperCase[i] = c
    THEN LowerCase[CHOOSE i \in 1..Len(UpperCase) : UpperCase[i] = c]
    ELSE c

\* filename.toLowerCase()
ToLowerCase(s) == [i \in 1..Len(s) |-> LowerChar(s[i])]

Digits == <<"0", "1", "2", "3", "4", "5", "6", "7", "8", "9">>

RECURSIVE ToStr(_)
\* decimal rendering of a non-negative number inside a template literal
ToStr(n) == IF n < 10 THEN <<Digits[n + 1]>>
            ELSE ToStr(n \div 10) \o <<Digits[(n % 10) + 1]>>

\* s.slice(a, b) : clamped to the length of s
Slice(s, a, b) == SubSeq(s, a + 1, IF b < Len(s) THEN b ELSE Len(s))

\* position of the last '/' of s, 0 when there is none
LastSlash(s) ==
    IF \E i \in 1..Len(s) : s[i] = "/"
    THEN CHOOSE i \in 1..Len(s) : s[i] = "/" /\ \A j \in (i + 1)..Len(s) : s[j] # "/"
    ELSE 0

\* url.split('/').pop()
LastSegment(s) == SubSeq(s, LastSlash(s) + 1, Len(s))

\* ------------------------------------------------------------ validation
PdfType == "application/pdf"
MAX_SIZE == 50 * 1024 * 1024
MIN_SIZE == 1024
PdfSig == <<"%", "P", "D", "F">>

validatePDFNoType(file, readFails) ==
    IF file.size > MAX_SIZE
    THEN [valid |-> FALSE, error |-> "File size exceeds 50MB limit"]
    ELSE IF file.size < MIN_SIZE
    THEN [valid |-> FALSE, error |-> "File is too small to be a valid PDF"]
    ELSE IF readFails
    THEN [valid |-> FALSE, error |-> "Failed to read file"]
    ELSE IF ~StartsWith(Slice(file.bytes, 0, 5), PdfSig)
    THEN [valid |-> FALSE, error |-> "File does not appear to be a valid PDF"]
    ELSE [valid |-> TRUE, error |-> ""]

validatePDFMinOff(file, readFails) ==
    IF file.type # PdfType
    THEN [valid |-> FALSE, error |-> "File must be a PDF document"]
    ELSE IF file.size > MAX_SIZE
    THEN [valid |-> FALSE, error |-> "File size exceeds 50MB limit"]
    ELSE IF file.size <= MIN_SIZE
    THEN [valid |-> FALSE, error |-> "File is too small to be a valid PDF"]
    ELSE IF readFails
    THEN [valid |-> FALSE, error |-> "Failed to read file"]
    ELSE IF ~StartsWith(Slice(file.bytes, 0, 5), PdfSig)
    THEN [valid |-> FALSE, error |-> "File does not appear to be a valid PDF"]
    ELSE [valid |-> TRUE, error |-> ""]

\* validatePDF: readFails is whether file.slice(0, 5).arrayBuffer() rejects
validatePDF(file, readFails) ==
    IF file.type # PdfType
    THEN [valid |-> FALSE, error |-> "File must be a PDF document"]
    ELSE IF file.size > MAX_SIZE
    THEN [valid |-> FALSE, error |-> "File size exceeds 50MB limit"]
    ELSE IF file.size < MIN_SIZE
    THEN [valid |-> FALSE, error |-> "File is too small to be a valid PDF"]
    ELSE IF readFails
    THEN [valid |-> FALSE, error |-> "Failed to read file"]
    ELSE IF ~StartsWith(Slice(file.bytes, 0, 5), PdfSig)
    THEN [valid |-> FALSE, error |-> "File does not appear to be a valid PDF"]
    ELSE [valid |-> TRUE, error |-> ""]

\* --------------------------------------------------------- classification
detectDocumentTypeEsrFirst(filename) ==
    LET lower == ToLowerCase(filename) IN
    IF Includes(lower, <<"e","s","r">>) THEN "ESR"
    ELSE IF Includes(lower, <<"t","d","s">>) THEN "TDS"
    ELSE IF Includes(lower, <<"m","s","d","s">>) THEN "MSDS"
    ELSE "TDS"

detectDocumentType(filename) ==
    LET lower == ToLowerCase(filename) IN
    IF Includes(lower, <<"t","d","s">>)
       \/ Includes(lower, <<"t","e","c","h","n","i","c","a","l"," ","d","a","t","a">>)
    THEN "TDS"
    ELSE IF Includes(lower, <<"e","s","r">>)
       \/ Includes(lower, <<"e","v","a","l","u","a","t","i","o","n"," ","r","e","p","o","r","t">>)
    THEN "ESR"
    ELSE IF Includes(lower, <<"m","s","d","s">>)
       \/ Includes(lower, <<"s","a","f","e","t","y"," ","d","a","t","a">>)
    THEN "MSDS"
    ELSE IF Includes(lower, <<"l","e","e","d">>)
    THEN "LEED"
    ELSE IF Includes(lower, <<"i","n","s","t","a","l","l","a","t","i","o","n">>)
       \/ Includes(lower, <<"i","n","s","t","a","l","l">>)
    THEN "Installation"
    ELSE IF Includes(lower, <<"w","a","r","r","a","n","t","y">>)
    THEN "Warranty"
    ELSE IF Includes(lower, <<"a","c","o","u","s","t","i","c">>)
       \/ Includes(lower, <<"e","s","l">>)
    THEN "Acoustic"
    ELSE IF Includes(lower, <<"s","p","e","c">>)
       \/ Includes(lower, <<"3","-","p","a","r","t">>)
    THEN "PartSpec"
    ELSE "TDS"

typeMap ==
    [TDS |-> "Technical Data Sheet",
     ESR |-> "Evaluation Report",
     MSDS |-> "Material Safety Data Sheet",
     LEED |-> "LEED Credit Guide",
     Installation |-> "Installation Guide",
     Warranty |-> "Limited Warranty",
     Acoustic |-> "Acoustical Performance",
     PartSpec |-> "3-Part Specifications"]

\* typeMap[type] || name : the table is total over DocumentType
extractDocumentName(filename, type) == typeMap[type]

\* ------------------------------------------------------------- the stores
\* supabase.storage.from('documents').getPublicUrl(key).data.publicUrl
BucketUrl == <<"h", "/", "b">>
PublicUrl(key) == BucketUrl \o Slash \o key

\* the key the bucket serves at a url, as fetch(url) resolves it
KeysAt(url) == {k \in DOMAIN blobs : PublicUrl(k) = url}

HasBlobNever(key) == FALSE

\* whether the bucket holds an object under key
HasBlob(key) == key \in DOMAIN blobs

\* storage.upload(key, file) when it succeeds
PutBlob(key, content) ==
    [k \in DOMAIN blobs \cup {key} |-> IF k = key THEN content ELSE blobs[k]]

RemoveBlobKeeps(key) == blobs

\* storage.remove([key]) when it succeeds
RemoveBlob(key) == [k \in DOMAIN blobs \ {key} |-> blobs[k]]

\* .insert([document]) when it succeeds
InsertRow(id, row) ==
    [i \in DOMAIN meta \cup {id} |-> IF i = id THEN row ELSE meta[i]]

DeleteRowKeeps(id) == meta

\* .delete().eq('id', id) when it succeeds
DeleteRow(id) == [i \in DOMAIN meta \ {id} |-> meta[i]]

\* ------------------------------------------------------------------ tasks
NoFile == [name |-> <<>>, type |-> "", size |-> 0, bytes |-> <<>>]
NoDoc == [id |-> 0, url |-> <<>>]
NoRes == [status |-> "none"]

Idle ==
    [pc |-> "idle", op |-> "none", file |-> NoFile, productType |-> "",
     obs |-> FALSE, progress |-> <<>>, fileName |-> <<>>, document |-> NoDoc,
     id |-> 0, doc |-> NoDoc, updates |-> <<>>, afterDelete |-> FALSE, documents |-> <<>>,
     results |-> <<>>, calls |-> <<>>, res |-> NoRes]

\* `throw new Error(<origin>.message)` leaving the handler, named by its origin
Throw(message) == [status |-> "throw", origin |-> message]
\* the handler's promise resolves with value
Resolve(value) == [status |-> "ok", value |-> value]

Call(t, name, outcome) == Append(t.calls, <<name, outcome>>)

ReportTwice(t, n) == IF t.obs THEN t.progress \o <<n, n>> ELSE t.progress

\* if (onProgress) onProgress(n)
Report(t, n) == IF t.obs THEN Append(t.progress, n) ELSE t.progress

\* ----------------------------------------------------------------- inputs
NameA == <<"a">>
NameDirA == <<"d", "/", "a">>
FileNames == {NameA, NameDirA}
PdfHead == <<"%", "P", "D", "F", "-">>
HtmlHead == <<"<", "h", "t", "m", "l">>
Rands == {<<"x">>}

Good(name, size) == [name |-> name, type |-> PdfType, size |-> size, bytes |-> PdfHead]

\* the (file, productType, onProgress given) triple the concurrent callers
\* hand to uploadDocument: the same file every time
UploadInputs == {<<Good(NameA, 2048), "structural-floor", TRUE>>}

\* every file a single caller may hand to uploadDocument
Types == {PdfType, "text/html", "application/x-pdf"}
Sizes == {0, MIN_SIZE - 1, MIN_SIZE, MIN_SIZE + 1, 2048, MAX_SIZE, MAX_SIZE + 1}
Heads == {PdfHead, HtmlHead, <<"%", "P">>}
AllFiles == [name : FileNames, type : Types, size : Sizes, bytes : Heads]
AllInputs == AllFiles \X {"structural-floor", "underlayment"} \X BOOLEAN

\* ---------------------------------------------------------------- history
\* origin[id]: the uploadDocument call that created record id (its file,
\* product type and storage key) and whether an updateDocument has since
\* changed the record or a deleteDocument has deleted it
Uploaded(id, t) ==
    [i \in DOMAIN origin \cup {id} |->
        IF i = id
        THEN [file |-> t.file, productType |-> t.productType, key |-> t.fileName,
              updated |-> FALSE, removed |-> FALSE]
        ELSE origin[i]]

MarkUpdated(id) == [origin EXCEPT ![id].updated = TRUE]

MarkRemoved(id) == [origin EXCEPT ![id].removed = TRUE]

\* ----------------------------------------------------------------- Init
Init ==
    /\ blobs = <<>>
    /\ meta = <<>>
    /\ nextId = 1
    /\ clock = 1
    /\ started = 0
    /\ deleted = {}
    /\ origin = <<>>
    /\ removeFailed = FALSE
    /\ task = [p \in Procs |-> Idle]

\* a task is free before its first call and once its handler has settled;
\* a caller takes the first free task (the tasks are interchangeable)
Free(p) == task[p].pc \in {"idle", "done"}
MayStart(p) ==
    /\ Free(p)
    /\ \A q \in Procs : Free(q) => TaskNo[p] <= TaskNo[q]

\* Date.now() / the table's now(): a reading never before the last one
Now(now) ==
    /\ now \in clock..MaxClock
    /\ clock' = now

\* a step whose outcome carries no timestamp reads none
NowIf(used, now) == IF used THEN Now(now) ELSE now = clock /\ clock' = clock

\* ---------------------------------------------------------- uploadDocument
\* `${Date.now()}-${Math.random().toString(36).substr(2, 9)}-${file.name}`
StorageKey(now, rnd, name) == ToStr(now) \o Dash \o rnd \o Dash \o name

\* uploadDocument(file, productType, onProgress) up to its first store call:
\* await this.validatePDF(file); on a valid verdict the storage key is built
StartUpload(p, inp, readFails, rnd, now) ==
    LET t == [Idle EXCEPT !.op = "upload", !.file = inp[1],
                          !.productType = inp[2], !.obs = inp[3]]
        v == validatePDF(inp[1], readFails)
    IN
    /\ MayStart(p)
    /\ started < MaxOps
    /\ started' = started + 1
    /\ task' = [task EXCEPT ![p] =
                 IF ~v.valid
                 THEN [t EXCEPT !.pc = "done", !.res = Throw(v.error)]
                 ELSE [t EXCEPT !.pc = "up_put",
                                !.fileName = StorageKey(now, rnd, t.file.name)]]
    /\ NowIf(validatePDF(inp[1], readFails).valid, now)
    /\ UNCHANGED <<blobs, meta, nextId, deleted, origin, removeFailed>>

\* the record uploadDocument builds from the file, its type and the public url
BuildDocument(file, productType, fileUrl) ==
    LET type == detectDocumentType(file.name) IN
    [name |-> extractDocumentName(file.name, type),
     description |-> <<type, " Document">>,
     filename |-> file.name,
     url |-> fileUrl,
     size |-> file.size,
     type |-> type,
     required |-> FALSE,
     products |-> IF productType = "structural-floor"
                  THEN <<"3/4-in (20mm)">>
                  ELSE <<"1/2-in (13mm)", "5/8-in (16mm)">>,
     product_type |-> productType]

\* publicUrlData?.publicUrl || ''  (found: whether the lookup yields a url)
FileUrl(key, found) == IF found THEN PublicUrl(key) ELSE <<>>

UploadFailedGoesOn(t) ==
    [t EXCEPT !.pc = "up_insert", !.calls = Call(t, "upload", "err"),
              !.document = BuildDocument(t.file, t.productType, PublicUrl(t.fileName))]

\* if (uploadError) throw new Error(uploadError.message)
UploadFailed(t) ==
    [t EXCEPT !.pc = "done", !.calls = Call(t, "upload", "err"),
              !.res = Throw("uploadError")]

UploadStoredWritesAgain(t, found) ==
    [t EXCEPT !.calls = Call(t, "upload", "ok"),
              !.progress = Report(t, 50),
              !.document = BuildDocument(t.file, t.productType,
                                         FileUrl(t.fileName, found))]

\* if (onProgress) onProgress(50), the public url and the metadata record
UploadStored(t, found) ==
    [t EXCEPT !.pc = "up_insert",
              !.calls = Call(t, "upload", "ok"),
              !.progress = Report(t, 50),
              !.document = BuildDocument(t.file, t.productType,
                                         FileUrl(t.fileName, found))]

\* await storage.upload(fileName, file) and what follows it up to the insert.
\* The bucket refuses a key it already holds (upload is called without upsert).
UploadPut(p, out, found) ==
    LET t == task[p] IN
    /\ t.pc = "up_put"
    /\ out \in {"ok", "err"}
    /\ out = "ok" => ~HasBlob(t.fileName)
    /\ blobs' = IF out = "ok"
                THEN PutBlob(t.fileName, [bytes |-> t.file.bytes, size |-> t.file.size])
                ELSE blobs
    /\ task' = [task EXCEPT ![p] = IF out = "ok" THEN UploadStored(t, found)
                                   ELSE UploadFailed(t)]
    /\ UNCHANGED <<meta, nextId, clock, started, deleted, origin, removeFailed>>

InsertedRowNoSize(document, id, now) ==
    [f \in DOMAIN document \cup {"id", "created_at", "updated_at"} |->
        IF f = "id" THEN id
        ELSE IF f \in {"created_at", "updated_at"} THEN now
        ELSE IF f = "size" THEN 0
        ELSE document[f]]

\* the row the table returns for an inserted document
InsertedRow(document, id, now) ==
    [f \in DOMAIN document \cup {"id", "created_at", "updated_at"} |->
        IF f = "id" THEN id
        ELSE IF f \in {"created_at", "updated_at"} THEN now
        ELSE document[f]]

\* await from('documents').insert([document]).select().single()
UploadInsert(p, out, now) ==
    LET t == task[p]
        row == InsertedRow(t.document, nextId, now)
    IN
    /\ t.pc = "up_insert"
    /\ out \in {"ok", "err"}
    /\ IF out = "ok"
       THEN /\ meta' = InsertRow(nextId, row)
            /\ nextId' = nextId + 1
            /\ task' = [task EXCEPT ![p] =
                         [t EXCEPT !.pc = "done",
                                   !.calls = Call(t, "insert", "ok"),
                                   !.progress = Report(t, 100),
                                   !.id = nextId,
                                   !.res = Resolve(row)]]
       ELSE /\ UNCHANGED <<meta, nextId>>
            /\ task' = [task EXCEPT ![p] =
                         [t EXCEPT !.pc = "up_rollback",
                                   !.calls = Call(t, "insert", "err")]]
    /\ origin' = IF out = "ok" THEN Uploaded(nextId, t) ELSE origin
    /\ NowIf(out = "ok", now)
    /\ UNCHANGED <<blobs, started, deleted, removeFailed>>

\* what uploadDocument throws once `await storage.remove([fileName])` settled
RollbackThrow(out) == IF out = "raise" THEN Throw("removeRaised") ELSE Throw("insertError")

\* if (insertError) { await storage.remove([fileName]); throw insertError }
UploadRollback(p, out) ==
    LET t == task[p] IN
    /\ t.pc = "up_rollback"
    /\ out \in {"ok", "err", "raise"}
    /\ blobs' = IF out = "ok" THEN RemoveBlob(t.fileName) ELSE blobs
    /\ task' = [task EXCEPT ![p] =
                 [t EXCEPT !.pc = "done",
                           !.calls = Call(t, "remove", out),
                           !.res = RollbackThrow(out)]]
    /\ removeFailed' = (removeFailed \/ out # "ok")
    /\ UNCHANGED <<meta, nextId, clock, started, deleted, origin>>

\* -------------------------------------------------------------- getDocument
Null == [null |-> TRUE]
Void == [void |-> TRUE]
\* the ids callers ask about: those handed out so far and one never handed out
DocIds == 1..nextId

\* .select('*').eq('id', id).maybeSingle() : data || null
SelectById(id) == IF id \in DOMAIN meta THEN meta[id] ELSE Null

\* what getDocument yields for the store's answer
GetResult(id, out) == IF out = "err" THEN Throw("selectError") ELSE Resolve(SelectById(id))

GetDocument(p, id, out) ==
    /\ MayStart(p)
    /\ out \in {"ok", "err"}
    /\ task' = [task EXCEPT ![p] =
                 [Idle EXCEPT !.pc = "done", !.op = "get", !.id = id,
                              !.afterDelete = id \in deleted,
                              !.calls = <<<<"select", out>>>>,
                              !.res = GetResult(id, out)]]
    /\ UNCHANGED <<blobs, meta, nextId, clock, started, deleted, origin, removeFailed>>

\* ----------------------------------------------------------- updateDocument
GoneUrl == PublicUrl(<<"z">>)
Updates == {[f \in {"url"} |-> GoneUrl], [f \in {"required"} |-> TRUE],
            [f \in {"filename"} |-> <<"z">>]}

ApplyUpdateNoStamp(row, updates, now) ==
    [f \in DOMAIN row |-> IF f \in DOMAIN updates THEN updates[f] ELSE row[f]]

\* { ...updates, updated_at: new Date().toISOString() } applied to a row
ApplyUpdate(row, updates, now) ==
    [f \in DOMAIN row |->
        IF f = "updated_at" THEN now
        ELSE IF f \in DOMAIN updates THEN updates[f]
        ELSE row[f]]

\* .update({...}).eq('id', id)
UpdateRows(id, updates, now) ==
    [i \in DOMAIN meta |-> IF i = id THEN ApplyUpdate(meta[i], updates, now) ELSE meta[i]]

UpdateDocument(p, id, updates, out, now) ==
    /\ MayStart(p)
    /\ started < MaxOps
    /\ started' = started + 1
    /\ out \in {"ok", "err"}
    /\ meta' = IF out = "ok" THEN UpdateRows(id, updates, now) ELSE meta
    /\ task' = [task EXCEPT ![p] =
                 [Idle EXCEPT !.pc = "done", !.op = "update", !.id = id,
                              !.updates = updates,
                              !.calls = <<<<"update", out>>>>,
                              !.res = IF out = "ok" THEN Resolve(Void)
                                      ELSE Throw("updateError")]]
    /\ origin' = IF out = "ok" /\ id \in DOMAIN meta THEN MarkUpdated(id) ELSE origin
    /\ NowIf(out = "ok" /\ id \in DOMAIN meta, now)
    /\ UNCHANGED <<blobs, nextId, deleted, removeFailed>>

\* ----------------------------------------------------------- deleteDocument
DeleteLookupIgnoresMissing(t, id, out) ==
    LET t1 == [t EXCEPT !.op = "delete", !.id = id, !.calls = <<<<"select", out>>>>] IN
    IF out = "err" THEN [t1 EXCEPT !.pc = "done", !.res = Throw("selectError")]
    ELSE IF SelectById(id) = Null
    THEN [t1 EXCEPT !.pc = "done", !.res = Resolve(Void)]
    ELSE [t1 EXCEPT !.pc = "del_db", !.doc = SelectById(id)]

\* what deleteDocument does with the answer of `await this.getDocument(id)`
DeleteLookup(t, id, out) ==
    LET t1 == [t EXCEPT !.op = "delete", !.id = id, !.calls = <<<<"select", out>>>>] IN
    IF out = "err" THEN [t1 EXCEPT !.pc = "done", !.res = Throw("selectError")]
    ELSE IF SelectById(id) = Null
    THEN [t1 EXCEPT !.pc = "done", !.res = Throw("Document not found")]
    ELSE [t1 EXCEPT !.pc = "del_db", !.doc = SelectById(id)]

StartDelete(p, id, out) ==
    /\ MayStart(p)
    /\ started < MaxOps
    /\ started' = started + 1
    /\ out \in {"ok", "err"}
    /\ task' = [task EXCEPT ![p] = DeleteLookup(Idle, id, out)]
    /\ UNCHANGED <<blobs, meta, nextId, clock, deleted, origin, removeFailed>>

\* if (doc.url) { const fileName = doc.url.split('/').pop(); if (fileName) ...
RemovesBlob(doc) == doc.url # <<>> /\ LastSegment(doc.url) # <<>>

DeleteDbAnsweredGoesOn(t, out) ==
    LET t1 == [t EXCEPT !.calls = Call(t, "delete", out)] IN
    IF RemovesBlob(t.doc) THEN [t1 EXCEPT !.pc = "del_blob"]
    ELSE [t1 EXCEPT !.pc = "done", !.res = Resolve(Void)]

\* if (dbError) throw new Error(dbError.message), else on to the blob
DeleteDbAnswered(t, out) ==
    LET t1 == [t EXCEPT !.calls = Call(t, "delete", out)] IN
    IF out = "err" THEN [t1 EXCEPT !.pc = "done", !.res = Throw("dbError")]
    ELSE IF RemovesBlob(t.doc) THEN [t1 EXCEPT !.pc = "del_blob"]
    ELSE [t1 EXCEPT !.pc = "done", !.res = Resolve(Void)]

\* await from('documents').delete().eq('id', id)
DeleteDb(p, out) ==
    LET t == task[p] IN
    /\ t.pc = "del_db"
    /\ out \in {"ok", "err"}
    /\ meta' = IF out = "ok" THEN DeleteRow(t.id) ELSE meta
    /\ task' = [task EXCEPT ![p] = DeleteDbAnswered(t, out)]
    /\ deleted' = IF out = "ok" /\ ~RemovesBlob(t.doc) THEN deleted \cup {t.id} ELSE deleted
    /\ origin' = IF out = "ok" /\ t.id \in DOMAIN meta THEN MarkRemoved(t.id) ELSE origin
    /\ UNCHANGED <<blobs, nextId, clock, started, removeFailed>>

DeleteBlobResultSurfaces(out) ==
    IF out = "ok" THEN Resolve(Void) ELSE Throw("storageError")

\* what deleteDocument yields once the storage remove settled: its result is
\* not looked at and a raised error is caught and logged
DeleteBlobResult(out) == Resolve(Void)

\* try { await storage.remove([fileName]) } catch { console.error(...) }
DeleteBlob(p, out) ==
    LET t == task[p] IN
    /\ t.pc = "del_blob"
    /\ out \in {"ok", "err", "raise"}
    /\ blobs' = IF out = "ok" THEN RemoveBlob(LastSegment(t.doc.url)) ELSE blobs
    /\ task' = [task EXCEPT ![p] =
                 [t EXCEPT !.pc = "done", !.calls = Call(t, "remove", out),
                           !.res = DeleteBlobResult(out)]]
    /\ deleted' = deleted \cup {t.id}
    /\ removeFailed' = (removeFailed \/ out # "ok")
    /\ UNCHANGED <<meta, nextId, clock, started, origin>>

\* --------------------------------------------------- getAllDocumentsWithData
\* .select('*').order('created_at', { ascending: false }) : the orders it may give
Listings ==
    {s \in [1..Cardinality(DOMAIN meta) -> DOMAIN meta] :
        /\ \A i, j \in DOMAIN s : i # j => s[i] # s[j]
        /\ \A i, j \in DOMAIN s : i < j => meta[s[i]].created_at >= meta[s[j]].created_at}

\* the printable encoding of a blob's bytes
Base64(bytes) == [base64 |-> bytes]

\* FileReader.readAsDataURL(blob): "data:<type>;base64" "," "<payload>"
ReadAsDataURL(content) ==
    [head |-> "data:application/pdf;base64", payload |-> Base64(content.bytes)]

\* base64.split(',') : neither part holds a comma
SplitComma(dataUrl) == <<dataUrl.head, dataUrl.payload>>

\* base64.split(',')[1]
AfterComma(dataUrl) == SplitComma(dataUrl)[2]

WithFileData(doc, content) ==
    [f \in DOMAIN doc \cup {"fileData"} |->
        IF f = "fileData" THEN AfterComma(ReadAsDataURL(content)) ELSE doc[f]]

\* await this.getAllDocuments()
StartExport(p, out) ==
    /\ MayStart(p)
    /\ out \in {"ok", "err"}
    /\ \E ids \in Listings :
         LET t == [Idle EXCEPT !.op = "export"]
             docs == [i \in DOMAIN ids |-> meta[ids[i]]]
         IN task' = [task EXCEPT ![p] =
                 IF out = "err" THEN [t EXCEPT !.pc = "done", !.res = Throw("selectError")]
                 ELSE IF docs = <<>> THEN [t EXCEPT !.pc = "done", !.res = Resolve(<<>>)]
                 ELSE [t EXCEPT !.pc = "exp_item", !.documents = docs]]
    /\ UNCHANGED <<blobs, meta, nextId, clock, started, deleted, origin, removeFailed>>

ExportStepAborts(t, out) ==
    LET doc == t.documents[Len(t.calls) + 1]
        skip == doc.url = <<>>
        key == CHOOSE k \in KeysAt(doc.url) : TRUE
        results == IF ~skip /\ out = "ok"
                   THEN Append(t.results, WithFileData(doc, blobs[key]))
                   ELSE t.results
        t1 == [t EXCEPT !.results = results,
                        !.calls = Call(t, "fetch", IF skip THEN "none" ELSE out)]
    IN IF ~skip /\ out = "raise"
       THEN [t1 EXCEPT !.pc = "done", !.res = Throw("fetchError")]
       ELSE IF Len(t1.calls) = Len(t.documents)
       THEN [t1 EXCEPT !.pc = "done", !.res = Resolve(results)]
       ELSE t1

\* one turn of `for (const doc of documents)`: out is what fetch(doc.url) and
\* the read of its body come to ("ok", a non-OK response, or a raised error)
ExportStep(t, out) ==
    LET doc == t.documents[Len(t.calls) + 1]
        skip == doc.url = <<>>
        key == CHOOSE k \in KeysAt(doc.url) : TRUE
        results == IF ~skip /\ out = "ok"
                   THEN Append(t.results, WithFileData(doc, blobs[key]))
                   ELSE t.results
        t1 == [t EXCEPT !.results = results,
                        !.calls = Call(t, "fetch", IF skip THEN "none" ELSE out)]
    IN IF Len(t1.calls) = Len(t.documents)
       THEN [t1 EXCEPT !.pc = "done", !.res = Resolve(results)]
       ELSE t1

ExportItem(p, out) ==
    LET t == task[p]
        doc == t.documents[Len(t.calls) + 1]
    IN
    /\ t.pc = "exp_item"
    /\ out \in {"ok", "notok", "raise"}
    /\ out = "ok" => (doc.url = <<>> \/ KeysAt(doc.url) # {})
    /\ task' = [task EXCEPT ![p] = ExportStep(t, out)]
    /\ UNCHANGED <<blobs, meta, nextId, clock, started, deleted, origin, removeFailed>>

Next ==
    \/ \E p \in Procs, inp \in UploadInputs, rf \in BOOLEAN, rnd \in Rands, now \in Times :
          StartUpload(p, inp, rf, rnd, now)
    \/ \E p \in Procs, out \in {"ok", "err"}, found \in BOOLEAN : UploadPut(p, out, found)
    \/ \E p \in Procs, out \in {"ok", "err"}, now \in Times : UploadInsert(p, out, now)
    \/ \E p \in Procs, out \in {"ok", "err", "raise"} : UploadRollback(p, out)
    \/ \E p \in Procs, id \in DocIds, out \in {"ok", "err"} : GetDocument(p, id, out)
    \/ \E p \in Procs, id \in DocIds, u \in Updates, out \in {"ok", "err"}, now \in Times :
          UpdateDocument(p, id, u, out, now)
    \/ \E p \in Procs, id \in DocIds, out \in {"ok", "err"} : StartDelete(p, id, out)
    \/ \E p \in Procs, out \in {"ok", "err"} : DeleteDb(p, out)
    \/ \E p \in Procs, out \in {"ok", "err", "raise"} : DeleteBlob(p, out)

\* concurrent callers of upload, get, update and delete over an empty store
Spec == Init /\ [][Next]_vars

\* ------------------ one caller: an arbitrary file uploaded, then its lifecycle
Solo == "t1"

SoloNext ==
    \/ \E inp \in AllInputs, rf \in BOOLEAN, rnd \in Rands, now \in Times :
          started = 0 /\ StartUpload(Solo, inp, rf, rnd, now)
    \/ \E out \in {"ok", "err"}, found \in BOOLEAN : UploadPut(Solo, out, found)
    \/ \E out \in {"ok", "err"}, now \in Times : UploadInsert(Solo, out, now)
    \/ \E out \in {"ok", "err", "raise"} : UploadRollback(Solo, out)
    \/ \E id \in DocIds, out \in {"ok", "err"} : GetDocument(Solo, id, out)
    \/ \E id \in DocIds, u \in Updates, out \in {"ok", "err"}, now \in Times :
          UpdateDocument(Solo, id, u, out, now)
    \/ \E id \in DocIds, out \in {"ok", "err"} : StartDelete(Solo, id, out)
    \/ \E out \in {"ok", "err"} : DeleteDb(Solo, out)
    \/ \E out \in {"ok", "err", "raise"} : DeleteBlob(Solo, out)

SoloSpec == Init /\ [][SoloNext]_vars

\* --------------------------------------------- export over a populated store
MaxDocs == 3
Kinds == {"nolocator", "held", "gone"}

\* the row and blob an earlier upload of a file left behind
StoredKey(i) == StorageKey(i, <<"x">>, NameA)
StoredRow(i, kind, created) ==
    InsertedRow(BuildDocument(Good(NameA, 2048), "underlayment",
                              FileUrl(StoredKey(i), kind # "nolocator")), i, created)

ExportInit ==
    \E n \in 0..MaxDocs :
      \E kinds \in [1..n -> Kinds], created \in [1..n -> 1..MaxClock] :
        /\ meta = [i \in 1..n |-> StoredRow(i, kinds[i], created[i])]
        /\ blobs = [k \in {StoredKey(i) : i \in {j \in 1..n : kinds[j] = "held"}} |->
                      [bytes |-> PdfHead, size |-> 2048]]
        /\ nextId = n + 1
        /\ clock = MaxClock
        /\ started = 0
        /\ deleted = {}
        /\ origin = [i \in 1..n |->
                      [file |-> Good(NameA, 2048), productType |-> "underlayment",
                       key |-> StoredKey(i), updated |-> FALSE, removed |-> FALSE]]
        /\ removeFailed = FALSE
        /\ task = [p \in Procs |-> Idle]

ExportNext ==
    \/ \E out \in {"ok", "err"} : task[Solo].pc = "idle" /\ StartExport(Solo, out)
    \/ \E out \in {"ok", "notok", "raise"} : ExportItem(Solo, out)

ExportSpec == ExportInit /\ [][ExportNext]_vars

\* ------------------------------------ one caller: uploads of named documents
NameXyzTds ==
    <<"X", "Y", "Z", "-", "T", "D", "S", "-", "2", "0", "2", "3", ".", "p", "d", "f">>
NameTechnical ==
    <<"T", "e", "c", "h", "n", "i", "c", "a", "l", " ", "D", "a", "t", "a", ".", "p", "d", "f">>
NameEsrTds ==
    <<"e", "s", "r", "-", "t", "d", "s", ".", "p", "d", "f">>
NameEsrMsds ==
    <<"E", "S", "R", "-", "m", "s", "d", "s", ".", "p", "d", "f">>
NameSafetyLeed ==
    <<"S", "a", "f", "e", "t", "y", " ", "D", "a", "t", "a", " ", "l", "e", "e", "d">>
NameMsds ==
    <<"m", "s", "d", "s", ".", "p", "d", "f">>
NameLeedInstall ==
    <<"L", "E", "E", "D", "-", "i", "n", "s", "t", "a", "l", "l">>
NameInstallWarranty ==
    <<"i", "n", "s", "t", "a", "l", "l", "-", "w", "a", "r", "r", "a", "n", "t", "y">>
NameWarrantyAcoustic ==
    <<"W", "a", "r", "r", "a", "n", "t", "y", "-", "a", "c", "o", "u", "s", "t", "i", "c">>
NameEslSpec ==
    <<"e", "s", "l", "-", "s", "p", "e", "c">>
Name3Part ==
    <<"3", "-", "p", "a", "r", "t">>
NameSpec ==
    <<"s", "p", "e", "c">>
NameReadme ==
    <<"r", "e", "a", "d", "m", "e", ".", "p", "d", "f">>
NameEvaluation ==
    <<"e", "v", "a", "l", "u", "a", "t", "i", "o", "n", " ", "r", "e", "p", "o", "r", "t">>
ClassNames ==
    {NameXyzTds, NameTechnical, NameEsrTds, NameEsrMsds,
     NameSafetyLeed, NameMsds, NameLeedInstall, NameInstallWarranty,
     NameWarrantyAcoustic, NameEslSpec, Name3Part, NameSpec,
     NameReadme, NameEvaluation}
ProductTypes == {"structural-floor", "underlayment", "wall-panel"}
ClassInputs == {<<Good(n, 2048), pt, FALSE>> : n \in ClassNames, pt \in ProductTypes}

ClassifyNext ==
    \/ \E inp \in ClassInputs, rf \in BOOLEAN, rnd \in Rands, now \in Times :
          started = 0 /\ StartUpload(Solo, inp, rf, rnd, now)
    \/ \E out \in {"ok", "err"}, found \in BOOLEAN : UploadPut(Solo, out, found)
    \/ \E out \in {"ok", "err"}, now \in Times : UploadInsert(Solo, out, now)
    \/ \E out \in {"ok", "err", "raise"} : UploadRollback(Solo, out)

ClassifySpec == Init /\ [][ClassifyNext]_vars

\* ================================================================== claims
Uploading(p) == task[p].op = "upload"
Deleting(p) == task[p].op = "delete"
LastCall(t) == t.calls[Len(t.calls)]
Called(t, name) == \E i \in DOMAIN t.calls : t.calls[i][1] = name

\* C1: in every reachable state of the concurrent callers no record of the
\* metadata store points at a missing blob: the locator of every record that
\* has one is served by a blob of the blob store.
C1_NoDanglingRecord ==
    \A id \in DOMAIN meta :
        meta[id].url # <<>> => KeysAt(meta[id].url) # {}

\* the upload of task p wrote its blob and then saw the insert fail
InsertFailedAfterPut(p) ==
    /\ Uploading(p)
    /\ task[p].pc = "done"
    /\ Len(task[p].calls) = 3
    /\ task[p].calls[1] = <<"upload", "ok">>
    /\ task[p].calls[2] = <<"insert", "err">>

\* what C2 promises once such an upload has returned
RolledBack(p) ==
    /\ ~HasBlob(task[p].fileName)
    /\ meta = <<>>
    /\ task[p].res = Throw("insertError")

\* C2 as claimed: whenever the blob write succeeded and the insert failed,
\* the returned upload has left no blob under its key and no record, and
\* throws the insert error.
C2_RollbackAlwaysClean ==
    InsertFailedAfterPut(Solo) => RolledBack(Solo)

\* C2 as amended: the same, when the compensating remove succeeded.
C2_RollbackCleanWhenRemoveSucceeds ==
    (InsertFailedAfterPut(Solo) /\ task[Solo].calls[3] = <<"remove", "ok">>)
        => RolledBack(Solo)

C2_Witness ==
    /\ InsertFailedAfterPut(Solo)
    /\ task[Solo].calls[3] = <<"remove", "ok">>
    /\ task[Solo].res = Throw("insertError")

\* C3: when the insert failed and the compensating remove failed too (an
\* error result or a raised error), the upload still throws the insert error.
C3_RemoveFailureNotPropagated ==
    (InsertFailedAfterPut(Solo) /\ task[Solo].calls[3][2] \in {"err", "raise"})
        => task[Solo].res = Throw("insertError")

\* the reasons validation gives
ValidationErrors ==
    {"File must be a PDF document", "File size exceeds 50MB limit",
     "File is too small to be a valid PDF", "Failed to read file",
     "File does not appear to be a valid PDF"}

\* the upload of task p ended in a validation error before any store call
Rejected(p) ==
    /\ task[p].pc = "done"
    /\ task[p].res.status = "throw"
    /\ task[p].res.origin \in ValidationErrors
    /\ task[p].calls = <<>>
    /\ blobs = <<>>
    /\ meta = <<>>

BadType(file) == file.type # PdfType
BadSignature(file) == ~StartsWith(Slice(file.bytes, 0, 5), PdfSig)

\* C4 as claimed: an upload whose type is not the PDF type, whose size is
\* <= 1024 or > 50MB, or whose first bytes do not start with %PDF ends in a
\* validation error with no store call.
C4_InvalidTouchesNoStore ==
    (/\ Uploading(Solo)
     /\ \/ BadType(task[Solo].file)
        \/ task[Solo].file.size <= MIN_SIZE
        \/ task[Solo].file.size > MAX_SIZE
        \/ BadSignature(task[Solo].file))
    => Rejected(Solo)

\* C4 as amended: the same with the lower size rule the code has (< 1024).
C4_RejectedTouchesNoStore ==
    (/\ Uploading(Solo)
     /\ \/ BadType(task[Solo].file)
        \/ task[Solo].file.size < MIN_SIZE
        \/ task[Solo].file.size > MAX_SIZE
        \/ BadSignature(task[Solo].file))
    => Rejected(Solo)

C4_Witness ==
    /\ Uploading(Solo)
    /\ BadSignature(task[Solo].file)
    /\ ~BadType(task[Solo].file)
    /\ task[Solo].file.size = 2048
    /\ Rejected(Solo)

\* a PDF-typed, %PDF-signed file whose bytes could be read
SignedPdf(p) ==
    /\ Uploading(p)
    /\ ~BadType(task[p].file)
    /\ ~BadSignature(task[p].file)
    /\ ~(Rejected(p) /\ task[p].res.origin = "Failed to read file")

\* C5 as claimed: such a file is accepted exactly when 1024 < size <= 50MB.
C5_AcceptsAboveMin ==
    SignedPdf(Solo) =>
        (~Rejected(Solo) <=>
            (task[Solo].file.size > MIN_SIZE /\ task[Solo].file.size <= MAX_SIZE))

\* C5 as amended: such a file is accepted exactly when 1024 <= size <= 50MB.
C5_AcceptsFromMin ==
    SignedPdf(Solo) =>
        (~Rejected(Solo) <=>
            (task[Solo].file.size >= MIN_SIZE /\ task[Solo].file.size <= MAX_SIZE))

C5_Witness ==
    /\ SignedPdf(Solo)
    /\ task[Solo].file.size = MIN_SIZE
    /\ Called(task[Solo], "upload")

\* C6: the step in which the blob write fails ends the upload with the
\* storage-write error, changes neither store and issues nothing further.
C6_PutFailureNoEffects ==
    [][\A p \in Procs :
         (/\ task[p].pc = "up_put"
          /\ task'[p].calls = <<<<"upload", "err">>>>)
         => /\ task'[p].pc = "done"
            /\ task'[p].res = Throw("uploadError")
            /\ blobs' = blobs
            /\ meta' = meta]_vars

C6_Witness ==
    \E p \in Procs :
        /\ Uploading(p)
        /\ task[p].pc = "done"
        /\ task[p].calls = <<<<"upload", "err">>>>
        /\ task[p].res = Throw("uploadError")

\* C7: in deleteDocument the blob removal is attempted only once the record
\* is gone, and a removal that fails still ends the call ok, the record gone.
C7_DeleteRecordFirst ==
    \A p \in Procs :
        Deleting(p) =>
            /\ task[p].pc = "del_blob" => task[p].id \notin DOMAIN meta
            /\ \A i \in DOMAIN task[p].calls :
                 task[p].calls[i][1] = "remove"
                    => /\ i > 1
                       /\ task[p].calls[i - 1] = <<"delete", "ok">>
            /\ Called(task[p], "remove")
                 => /\ task[p].pc = "done"
                    /\ task[p].res = Resolve(Void)
                    /\ task[p].id \notin DOMAIN meta

C7_Witness ==
    \E p \in Procs :
        /\ Deleting(p)
        /\ task[p].pc = "done"
        /\ LastCall(task[p]) \in {<<"remove", "err">>, <<"remove", "raise">>}
        /\ task[p].res = Resolve(Void)

\* deleteDocument of task p looked its id up and found no record
FoundNothing(p) ==
    /\ Deleting(p)
    /\ task[p].calls[1] = <<"select", "ok">>
    /\ task[p].doc = NoDoc

\* C8 as claimed: deleteDocument on an id without a record ends in a
\* not-found outcome that is no error, with no delete and no remove issued.
C8_MissingIsNoError ==
    \A p \in Procs :
        FoundNothing(p) =>
            /\ task[p].pc = "done"
            /\ task[p].res.status # "throw"
            /\ Len(task[p].calls) = 1

\* C8 as amended: it ends by throwing Error('Document not found'), with no
\* delete and no remove issued.
C8_MissingThrowsNotFound ==
    \A p \in Procs :
        FoundNothing(p) =>
            /\ task[p].pc = "done"
            /\ task[p].res = Throw("Document not found")
            /\ Len(task[p].calls) = 1

C8_Witness ==
    \E p \in Procs :
        /\ FoundNothing(p)
        /\ task[p].res = Throw("Document not found")
        /\ DOMAIN meta # {}

\* getDocument(id) of task p ran after a deleteDocument(id) had completed ok
GotAfterDelete(p) ==
    /\ task[p].op = "get"
    /\ task[p].afterDelete

\* C9 as claimed: every such getDocument returns null, never an error.
C9_DeletedIsNull ==
    \A p \in Procs :
        GotAfterDelete(p) => task[p].res = Resolve(Null)

\* C9 as amended: it returns null whenever the select itself reports no error.
C9_DeletedIsNullWhenRead ==
    \A p \in Procs :
        (GotAfterDelete(p) /\ task[p].calls = <<<<"select", "ok">>>>)
            => task[p].res = Resolve(Null)

C9_Witness ==
    \E p \in Procs :
        /\ GotAfterDelete(p)
        /\ task[p].res = Resolve(Null)
        /\ HasBlob(StorageKey(1, <<"x">>, NameA))

RECURSIVE Materialized(_, _, _)
\* the listed documents that have a locator and whose fetch succeeded, each
\* with the payload of its blob, in listing order
Materialized(docs, outcomes, i) ==
    IF i > Len(docs) THEN <<>>
    ELSE LET rest == Materialized(docs, outcomes, i + 1) IN
         IF docs[i].url # <<>> /\ outcomes[i] = <<"fetch", "ok">>
         THEN <<[f \in DOMAIN docs[i] \cup {"fileData"} |->
                    IF f = "fileData"
                    THEN Base64((blobs[CHOOSE k \in KeysAt(docs[i].url) : TRUE]).bytes)
                    ELSE docs[i][f]]>> \o rest
         ELSE rest

Failures(t) ==
    {i \in DOMAIN t.calls : t.calls[i][2] \in {"notok", "raise"}}

\* the export of task p listed its documents and has gone through all of them
Exported(p) ==
    /\ task[p].op = "export"
    /\ task[p].pc = "done"
    /\ task[p].documents # <<>>

\* C10: an export that listed its documents resolves, whatever fetches
\* failed, with exactly the documents that have a locator and were fetched,
\* each with its payload; N located documents with one failure give N - 1.
C10_ExportIsolatesFailures ==
    /\ task[Solo].op = "export" /\ task[Solo].pc = "exp_item"
         => Len(task[Solo].calls) < Len(task[Solo].documents)
    /\ Exported(Solo) =>
         /\ Len(task[Solo].calls) = Len(task[Solo].documents)
         /\ task[Solo].res =
              Resolve(Materialized(task[Solo].documents, task[Solo].calls, 1))
         /\ (/\ \A i \in DOMAIN task[Solo].documents : task[Solo].documents[i].url # <<>>
             /\ Cardinality(Failures(task[Solo])) = 1)
            => Len(task[Solo].res.value) = Len(task[Solo].documents) - 1

C10_Witness ==
    /\ Exported(Solo)
    /\ Len(task[Solo].documents) = 3
    /\ task[Solo].calls = <<<<"fetch", "ok">>, <<"fetch", "raise">>, <<"fetch", "ok">>>>
    /\ task[Solo].res.status = "ok"
    /\ Len(task[Solo].res.value) = 2

\* task p ends a getDocument in this step
Gets(p) == task'[p].op = "get" /\ task'[p] # task[p]

\* record id was created by an upload and neither updated nor deleted since
Untouched(id) ==
    /\ id \in DOMAIN origin
    /\ ~origin[id].updated
    /\ ~origin[id].removed

\* C11: a getDocument whose select answers, on an id that uploadDocument
\* returned and that was neither updated nor deleted since, returns a record
\* whose filename and size are those of the uploaded file and whose type is
\* the classification of its name.
C11_GetReturnsUploaded ==
    [][\A p \in Procs :
         (/\ Gets(p)
          /\ task'[p].calls = <<<<"select", "ok">>>>
          /\ Untouched(task'[p].id))
         => /\ task'[p].res.status = "ok"
            /\ task'[p].res.value # Null
            /\ task'[p].res.value.filename = origin[task'[p].id].file.name
            /\ task'[p].res.value.size = origin[task'[p].id].file.size
            /\ task'[p].res.value.type =
                  detectDocumentType(origin[task'[p].id].file.name)]_vars

C11_Witness ==
    \E p \in Procs :
        /\ task[p].op = "get"
        /\ Untouched(task[p].id)
        /\ task[p].res.status = "ok"
        /\ task[p].res.value # Null
        /\ task[p].res.value.filename = NameDirA
        /\ task[p].res.value.size = MAX_SIZE
        /\ task[p].res.value.type = "TDS"

\* the upload of task p has written its blob and has not taken it back
Holds(p) ==
    /\ Uploading(p)
    /\ task[p].calls # <<>>
    /\ task[p].calls[1] = <<"upload", "ok">>
    /\ \/ task[p].pc \in {"up_insert", "up_rollback"}
       \/ task[p].pc = "done" /\ task[p].res.status = "ok"

Succeeded(p) == Uploading(p) /\ task[p].pc = "done" /\ task[p].res.status = "ok"

\* two overlapping uploads of the same filename hold two distinct keys, each
\* blob is there, and when both succeeded there are two distinct records
Independent ==
    \A p, q \in Procs :
        (/\ p # q
         /\ Holds(p)
         /\ Holds(q)
         /\ task[p].file.name = task[q].file.name)
        => /\ task[p].fileName # task[q].fileName
           /\ HasBlob(task[p].fileName)
           /\ blobs[task[p].fileName] =
                 [bytes |-> task[p].file.bytes, size |-> task[p].file.size]
           /\ (Succeeded(p) /\ Succeeded(q))
                => /\ task[p].id # task[q].id
                   /\ task[p].id \in DOMAIN meta
                   /\ meta[task[p].id] = task[p].res.value
                   /\ meta[task[p].id].filename = meta[task[q].id].filename

\* a step of the upload of task p leaves every blob that is already there as
\* it is, but for the one under its own key when it takes that back
KeepsOtherBlobs(p) ==
    (Uploading(p)' /\ task'[p] # task[p]) =>
        \A k \in DOMAIN blobs :
            /\ k # task'[p].fileName => (k \in DOMAIN blobs' /\ blobs'[k] = blobs[k])
            /\ k \in DOMAIN blobs' => blobs'[k] = blobs[k]
            /\ k \notin DOMAIN blobs' => LastCall(task'[p]) = <<"remove", "ok">>

\* C12: two uploads of the same filename, interleaved in any way, do not
\* interfere: they write two distinct storage keys, no step of an upload
\* overwrites a blob that is already there or removes a blob under another
\* key than its own, and when both succeed there are two distinct records.
C12_UploadsDoNotInterfere ==
    /\ []Independent
    /\ [][\A p \in Procs : KeepsOtherBlobs(p)]_vars

C12_Witness ==
    /\ Succeeded("t1")
    /\ Succeeded("t2")
    /\ task["t1"].file.name = task["t2"].file.name
    /\ task["t1"].fileName # task["t2"].fileName
    /\ task["t1"].id = 2
    /\ task["t2"].id = 1

\* task p runs an updateDocument in this step
Updating(p) == task'[p].op = "update" /\ task'[p] # task[p]

\* C13: a step of updateDocument issues the one metadata update and leaves
\* the blob store as it is; when the update succeeds the record of that id,
\* if there is one, takes the given fields and the current time as its
\* updated-at and every other record stays as it is; when it fails the
\* metadata store stays as it is.
C13_UpdateTouchesOnlyMetadata ==
    [][\A p \in Procs :
         Updating(p) =>
            /\ blobs' = blobs
            /\ Len(task'[p].calls) = 1
            /\ task'[p].calls[1][1] = "update"
            /\ DOMAIN meta' = DOMAIN meta
            /\ \A i \in DOMAIN meta :
                 IF i = task'[p].id /\ task'[p].calls[1][2] = "ok"
                 THEN /\ meta'[i].updated_at = clock'
                      /\ \A f \in DOMAIN meta[i] \ {"updated_at"} :
                           meta'[i][f] = IF f \in DOMAIN task'[p].updates
                                         THEN task'[p].updates[f]
                                         ELSE meta[i][f]
                 ELSE meta'[i] = meta[i]]_vars

C13_Witness ==
    \E p \in Procs :
        /\ task[p].op = "update"
        /\ task[p].res = Resolve(Void)
        /\ task[p].id \in DOMAIN meta
        /\ meta[task[p].id].filename = <<"z">>
        /\ meta[task[p].id].updated_at > meta[task[p].id].created_at
        /\ HasBlob(origin[task[p].id].key)

\* the classification rules in their order of precedence: a type and the
\* substrings that select it
Rules ==
    <<[type |-> "TDS",
       any |-> {<<"t", "d", "s">>,
               <<"t", "e", "c", "h", "n", "i", "c", "a", "l", " ", "d", "a", "t", "a">>}],
      [type |-> "ESR",
       any |-> {<<"e", "s", "r">>,
               <<"e", "v", "a", "l", "u", "a", "t", "i", "o", "n", " ", "r", "e", "p", "o", "r", "t">>}],
      [type |-> "MSDS",
       any |-> {<<"m", "s", "d", "s">>,
               <<"s", "a", "f", "e", "t", "y", " ", "d", "a", "t", "a">>}],
      [type |-> "LEED",
       any |-> {<<"l", "e", "e", "d">>}],
      [type |-> "Installation",
       any |-> {<<"i", "n", "s", "t", "a", "l", "l", "a", "t", "i", "o", "n">>,
               <<"i", "n", "s", "t", "a", "l", "l">>}],
      [type |-> "Warranty",
       any |-> {<<"w", "a", "r", "r", "a", "n", "t", "y">>}],
      [type |-> "Acoustic",
       any |-> {<<"a", "c", "o", "u", "s", "t", "i", "c">>,
               <<"e", "s", "l">>}],
      [type |-> "PartSpec",
       any |-> {<<"s", "p", "e", "c">>,
               <<"3", "-", "p", "a", "r", "t">>}]>>

RECURSIVE FirstMatch(_, _)
\* the type of the first rule from the i-th on that matches, TDS when none does
FirstMatch(lower, i) ==
    IF i > Len(Rules) THEN "TDS"
    ELSE IF \E sub \in Rules[i].any : Includes(lower, sub) THEN Rules[i].type
    ELSE FirstMatch(lower, i + 1)

SizeVariants(productType) ==
    IF productType = "structural-floor" THEN <<"3/4-in (20mm)">>
    ELSE <<"1/2-in (13mm)", "5/8-in (16mm)">>

\* C14: every record uploadDocument inserted carries the type of the first
\* matching rule over the lower-cased filename (TDS when none matches) and the
\* size variants of its product type; "XYZ-TDS-2023.pdf" uploaded for
\* "structural-floor" carries TDS and ["3/4-in (20mm)"].
C14_InsertedRecordClassified ==
    \A id \in DOMAIN meta :
        /\ meta[id].filename = origin[id].file.name
        /\ meta[id].type = FirstMatch(ToLowerCase(origin[id].file.name), 1)
        /\ meta[id].products = SizeVariants(origin[id].productType)
        /\ meta[id].product_type = origin[id].productType
        /\ (origin[id].file.name = NameXyzTds /\ origin[id].productType = "structural-floor")
             => (meta[id].type = "TDS" /\ meta[id].products = <<"3/4-in (20mm)">>)

C14_Witness ==
    \E id \in DOMAIN meta :
        /\ meta[id].filename = NameEsrTds
        /\ meta[id].type = "TDS"
        /\ meta[id].product_type = "wall-panel"
        /\ meta[id].products = <<"1/2-in (13mm)", "5/8-in (16mm)">>
        /\ task[Solo].res = Resolve(meta[id])

\* C15: in every state of an upload the store calls issued so far are, in
\* this order, at most one blob write, at most one metadata insert and at
\* most one compensating remove; a blob write is there only when validation
\* passed, an insert only after the blob write succeeded, a remove only after
\* the insert failed, and the upload waits for exactly the call that is next.
C15_UploadStepsInOrder ==
    \A p \in Procs :
        Uploading(p) =>
            LET t == task[p] IN
            /\ Len(t.calls) <= 3
            /\ Len(t.calls) >= 1 =>
                 (t.calls[1][1] = "upload" /\ validatePDF(t.file, FALSE).valid)
            /\ Len(t.calls) >= 2 =>
                 (t.calls[1] = <<"upload", "ok">> /\ t.calls[2][1] = "insert")
            /\ Len(t.calls) = 3 =>
                 (t.calls[2] = <<"insert", "err">> /\ t.calls[3][1] = "remove")
            /\ ~validatePDF(t.file, FALSE).valid => (t.pc = "done" /\ t.calls = <<>>)
            /\ t.pc = "up_put" => t.calls = <<>>
            /\ t.pc = "up_insert" => t.calls = <<<<"upload", "ok">>>>
            /\ t.pc = "up_rollback" => Len(t.calls) = 2

C15_Witness ==
    \E p \in Procs :
        /\ Uploading(p)
        /\ task[p].file.size = MIN_SIZE
        /\ task[p].pc = "done"
        /\ task[p].calls = <<<<"upload", "ok">>, <<"insert", "ok">>>>
        /\ task[p].res.status = "ok"

\* C16: every record uploadDocument created, as long as no updateDocument
\* has changed it, has a non-empty url.
C16_LocatorNonEmpty ==
    \A id \in DOMAIN meta :
        ~origin[id].updated => meta[id].url # <<>>

\* no operation is in progress
Quiet == \A p \in Procs : Free(p)

\* some record's locator is the public url of the blob under key k
Referenced(k) == \E id \in DOMAIN meta : meta[id].url = PublicUrl(k)

\* C17: when no blob-store remove has failed so far and no operation is in
\* progress, every blob of the blob store is referenced by a record.
C17_NoOrphanWhenRemovesSucceed ==
    (~removeFailed /\ Quiet) => \A k \in DOMAIN blobs : Referenced(k)

\* the values an observer has received by the time the store calls so far
\* have been answered
ProgressFor(calls) ==
    IF calls = <<>> \/ calls[1] # <<"upload", "ok">> THEN <<>>
    ELSE IF Len(calls) >= 2 /\ calls[2] = <<"insert", "ok">> THEN <<50, 100>>
    ELSE <<50>>

\* where an upload stands and what it has come to, given its file and the
\* answers of its store calls so far, whether or not there is an observer
OutcomeFor(t) ==
    IF t.calls = <<>>
    THEN \/ t.pc = "up_put" /\ t.res = NoRes
         \/ t.pc = "done" /\ t.res.status = "throw" /\ t.res.origin \in ValidationErrors
    ELSE IF t.calls = <<<<"upload", "err">>>>
    THEN t.pc = "done" /\ t.res = Throw("uploadError")
    ELSE IF t.calls = <<<<"upload", "ok">>>>
    THEN t.pc = "up_insert" /\ t.res = NoRes
    ELSE IF t.calls = <<<<"upload", "ok">>, <<"insert", "ok">>>>
    THEN t.pc = "done" /\ t.res.status = "ok"
    ELSE IF t.calls = <<<<"upload", "ok">>, <<"insert", "err">>>>
    THEN t.pc = "up_rollback" /\ t.res = NoRes
    ELSE /\ Len(t.calls) = 3
         /\ t.pc = "done"
         /\ t.res = RollbackThrow(t.calls[3][2])

\* the stores as the one upload of a single caller leaves them
StoresFor(t) ==
    /\ blobs = IF t.calls # <<>> /\ t.calls[1] = <<"upload", "ok">>
                  /\ LastCall(t) # <<"remove", "ok">>
               THEN [k \in {t.fileName} |-> [bytes |-> t.file.bytes, size |-> t.file.size]]
               ELSE <<>>
    /\ meta = IF t.calls = <<<<"upload", "ok">>, <<"insert", "ok">>>>
              THEN [i \in {1} |-> t.res.value]
              ELSE <<>>

C19_DeleteFailureKeepsBoth ==
    [][\A p \in Procs :
         (/\ task[p].pc = "del_db"
          /\ LastCall(task'[p]) = <<"delete", "err">>)
         => /\ task'[p].pc = "done"
            /\ task'[p].res = Throw("dbError")
            /\ task'[p].calls = <<<<"select", "ok">>, <<"delete", "err">>>>
            /\ meta' = meta
            /\ blobs' = blobs
            /\ deleted' = deleted]_vars

C19_Witness ==
    \E p \in Procs :
        /\ Deleting(p)
        /\ task[p].res = Throw("dbError")
        /\ task[p].id \in DOMAIN meta
        /\ meta[task[p].id] = task[p].doc
        /\ HasBlob(LastSegment(task[p].doc.url))

\* C20: for every record uploadDocument created with a locator and no
\* updateDocument has changed, the last '/'-separated segment of its url is
\* the key its blob was stored under; and once a delete of such a record has
\* ended with its remove succeeding, that blob is gone.
C20_DeleteKeyIsUploadKey ==
    /\ \A id \in DOMAIN meta :
         (~origin[id].updated /\ meta[id].url # <<>>)
            => LastSegment(meta[id].url) = origin[id].key
    /\ \A p \in Procs :
         (/\ Deleting(p)
          /\ task[p].pc = "done"
          /\ LastCall(task[p]) = <<"remove", "ok">>
          /\ ~origin[task[p].id].updated)
         => ~HasBlob(origin[task[p].id].key)

\* a file named "d/a" was uploaded and deleted with every call succeeding,
\* and its blob is still there with no record
SlashNameOrphan ==
    /\ Deleting(Solo)
    /\ task[Solo].calls = <<<<"select", "ok">>, <<"delete", "ok">>, <<"remove", "ok">>>>
    /\ origin[1].file.name = NameDirA
    /\ ~origin[1].updated
    /\ ~removeFailed
    /\ meta = <<>>
    /\ HasBlob(origin[1].key)

====
